---- MODULE Spec2Model ----
(***************************************************************************)
(* DSP-FD2 unified front door: request routing (UnifiedFrontDoorService)   *)
(* and the pool of in-process module instances (ModuleManager), modelled   *)
(* from src/src/front_door.py and src/src/core/module_interface.py.        *)
(*                                                                         *)
(* Every await of the Python code is a suspension point: a coroutine is    *)
(* one task of the model, and one action is the code a task runs between   *)
(* two suspension points.  Calls to the outside world (registry, gateway,  *)
(* module methods) return a nondeterministically chosen outcome.           *)
(* The model covers the deployment in which the base module import         *)
(* succeeded (module_manager is not None) and no Redis URL is configured   *)
(* (redis_client is None, the default of UnifiedFrontDoorConfig).          *)
(***************************************************************************)
EXTENDS Integers, Sequences, FiniteSets, TLC

(* ------------------------------ bounds -------------------------------- *)
NTasks == 2
MaxPoolSize == 2
MaxInst == 3
MaxClock == 1

Tasks == 1..NTasks
Inst == 1..MaxInst
PoolSizes == 0..MaxPoolSize

None == "None"

(* ------------------------- strings as sequences ------------------------ *)
Lower(s) ==
    LET LowerCh(c) ==
            CASE c = "A" -> "a" [] c = "P" -> "p" [] c = "I" -> "i" [] c = "S" -> "s"
              [] c = "X" -> "x" [] c = "G" -> "g" [] c = "T" -> "t" [] c = "E" -> "e"
              [] c = "W" -> "w" [] c = "Y" -> "y" [] OTHER -> c
    IN  [i \in 1..Len(s) |-> LowerCh(s[i])]

Contains(s, sub) ==
    \E i \in 1..(Len(s) - Len(sub) + 1) : SubSeq(s, i, i + Len(sub) - 1) = sub

ApiGatewayStr == <<"a","p","i","_","g","a","t","e","w","a","y">>
ApisixStr == <<"a","p","i","s","i","x">>
InferenceStr == <<"i","n","f">>

(* ------------------- the Manifest Registry's documents ----------------- *)
Projects == {"gw", "acme", "a", "b", "c", "d", "e", "r", "p"}

InferenceOpenAIModule == "src.modules.inference_openai.InferenceOpenAIModule"

\* the methods a module class defines
ClassMethods(implementation) ==
    IF implementation = InferenceOpenAIModule
    THEN {"initialize", "handle_request", "health_check", "shutdown",
          "validate_request", "get_metrics", "handle_streaming_request"}
    ELSE {}

\* gw:   an APISIX gateway module, written in mixed case
\* acme: the spec's scenario, module_type api_gateway named "acme-gw"
\* a, b, c: direct projects whose manifests name an implementation
\* d, e: manifests in the registry's own layout (project_id, modules and
\*       environment as in manifest_direct of the tests) that also name an
\*       implementation; they differ in project_id alone
\* r:    as a, with a required reference that nothing resolves
\* p:    an APISIX gateway module that lists a consumer, a service and a
\*       route (the first of GatewayManifests)
Registry ==
    [p \in Projects |->
        CASE p = "gw" ->
               [project_id |-> p,
                modules |-> << [module_type |-> <<"A","P","I","_","G","a","t","e","w","a","y">>,
                                name |-> <<"E","d","g","e","-","A","P","I","S","I","X">>,
                                cross_references |-> <<>>] >>,
                project |-> None, module |-> None, environment |-> None,
                module_type |-> None, implementation |-> None]
          [] p = "acme" ->
               [project_id |-> p,
                modules |-> << [module_type |-> ApiGatewayStr,
                                name |-> <<"a","c","m","e","-","g","w">>,
                                cross_references |-> <<>>] >>,
                project |-> None, module |-> None, environment |-> None,
                module_type |-> None, implementation |-> None]
          [] p = "p" ->
               [project_id |-> p,
                modules |-> << [module_type |-> ApiGatewayStr,
                                name |-> ApisixStr,
                                cross_references |-> <<>>] >>,
                project |-> None, module |-> None, environment |-> None,
                module_type |-> None, implementation |-> None]
          [] p \in {"d", "e"} ->
               [project_id |-> p,
                modules |-> << [module_type |-> InferenceStr,
                                name |-> <<"l","l","m">>,
                                cross_references |-> <<>>] >>,
                project |-> None, module |-> None, environment |-> "test",
                module_type |-> "inference_openai",
                implementation |-> InferenceOpenAIModule]
          [] OTHER ->
               [project_id |-> p,
                modules |-> << [module_type |-> InferenceStr,
                                name |-> <<"l","l","m">>,
                                cross_references |->
                                    IF p = "r"
                                    THEN << [name |-> "api_key",
                                             source |-> "secret-store://missing/path",
                                             required |-> TRUE, default |-> None,
                                             module_name |-> None] >>
                                    ELSE <<>>] >>,
                project |-> p, module |-> "llm", environment |-> None,
                module_type |-> "inference_openai",
                implementation |-> InferenceOpenAIModule]]

_get_module_key(manifest) ==
    << manifest.project, manifest.module,
       \* self.config.environment
       IF manifest.environment = None THEN "production" ELSE manifest.environment >>

Keys == { _get_module_key(Registry[p]) : p \in Projects }

has_apisix_by_type(manifest) ==
    \E i \in 1..Len(manifest.modules) :
        Lower(manifest.modules[i].module_type) = ApiGatewayStr

\* the loop of analyze_and_configure_project over manifest["modules"]
has_apisix(manifest) ==
    \E i \in 1..Len(manifest.modules) :
        /\ Lower(manifest.modules[i].module_type) = ApiGatewayStr
        /\ Contains(Lower(manifest.modules[i].name), ApisixStr)

\* the routing mode one sync records for a manifest
RoutingModeOf(manifest, client) ==
    IF has_apisix(manifest) /\ client THEN "apisix" ELSE "direct"

\* get_runtime_references: reference name -> the module_name its entry gives
get_runtime_references(manifest) ==
    UNION { { << manifest.modules[i].cross_references[j].name,
                 manifest.modules[i].cross_references[j].module_name >> :
              j \in 1..Len(manifest.modules[i].cross_references) } :
            i \in 1..Len(manifest.modules) }

\* the synchronous part of _create_module, before the await of initialize
CanInstantiate(manifest) ==
    /\ manifest.implementation # None
    /\ manifest.module_type \in
          {"inference_openai", "inference_generic", "rag", "data_processing",
           "evaluation", "training"}

(* ------------------------------ requests ------------------------------- *)
\* path: request.url.path.strip("/").split("/"); host: host.split(".")
Requests ==
    [path : { <<"">>, <<"gw", "x">>, <<"acme">>, <<"a">>, <<"b", "y">>, <<"c">>, <<"d">>,
              <<"e">>, <<"r">>, <<"p">> },
     x_project_id : { "" }, host : { <<"localhost">> }, method : { "GET", "POST" }]

\* the variants of extract_project_id that try the header first, and that
\* take www for a subdomain
extract_project_id_header_first(req) ==
    IF req.x_project_id # "" THEN req.x_project_id
    ELSE IF Len(req.path) > 0 /\ req.path[1] # "" THEN req.path[1]
    ELSE IF Len(req.host) >= 2 /\ req.host[1] # "" /\ req.host[1] # "www" THEN req.host[1]
    ELSE None

extract_project_id_any_subdomain(req) ==
    IF Len(req.path) > 0 /\ req.path[1] # "" THEN req.path[1]
    ELSE IF req.x_project_id # "" THEN req.x_project_id
    ELSE IF Len(req.host) >= 2 /\ req.host[1] # "" THEN req.host[1]
    ELSE None

extract_project_id(req) ==
    IF Len(req.path) > 0 /\ req.path[1] # "" THEN req.path[1]
    ELSE IF req.x_project_id # "" THEN req.x_project_id
    ELSE IF Len(req.host) >= 2 /\ req.host[1] # "" /\ req.host[1] # "www" THEN req.host[1]
    ELSE None

(* -------------------- requests as they arrive -------------------------- *)
\* str.strip(ch): leading and trailing occurrences of ch removed
RECURSIVE LStrip(_, _)
LStrip(s, ch) ==
    IF s # <<>> /\ Head(s) = ch THEN LStrip(Tail(s), ch) ELSE s

RECURSIVE RStrip(_, _)
RStrip(s, ch) ==
    IF s # <<>> /\ s[Len(s)] = ch THEN RStrip(SubSeq(s, 1, Len(s) - 1), ch) ELSE s

\* str.split(sep): the pieces between the separators, at least one piece
RECURSIVE SplitFrom(_, _, _)
SplitFrom(s, sep, piece) ==
    IF s = <<>> THEN << piece >>
    ELSE IF Head(s) = sep THEN << piece >> \o SplitFrom(Tail(s), sep, <<>>)
    ELSE SplitFrom(Tail(s), sep, Append(piece, Head(s)))

Split(s, sep) == SplitFrom(s, sep, <<>>)

\* a sequence of characters as the string it spells
RECURSIVE Str(_)
Str(s) == IF s = <<>> THEN "" ELSE Head(s) \o Str(Tail(s))

StrEach(pieces) == [i \in 1..Len(pieces) |-> Str(pieces[i])]

\* what extract_project_id reads off a request: path_parts, the header, and
\* the labels of the Host header
ParseRequest(raw) ==
    [path |-> StrEach(Split(RStrip(LStrip(raw.url_path, "/"), "/"), "/")),
     x_project_id |-> raw.x_project_id,
     host |-> StrEach(Split(raw.host, ".")),
     method |-> raw.method]

MaxPathLen == 3

RECURSIVE SeqsUpTo(_, _)
SeqsUpTo(chars, n) ==
    IF n = 0 THEN { <<>> }
    ELSE LET shorter == SeqsUpTo(chars, n - 1) IN
         shorter \cup { Append(q, c) : q \in shorter, c \in chars }

RawRequests ==
    [url_path : { <<>> } \cup { << "/" >> \o q : q \in SeqsUpTo({"/", "a"}, MaxPathLen) },
     x_project_id : {"", "b"},
     host : { <<>>, <<"l">>, <<"c", ".", "x">>, <<"w", "w", "w", ".", "x">>, <<".", "x">>,
              <<"c", ".", "b", ".", "x">> },
     method : {"GET"}]

(* ------------------------------- state --------------------------------- *)
VARIABLES
    module_pool_size,            \* config.module_pool_size
    apisix_client,               \* TRUE iff the admin url and key are configured
    apisix_gateway_url,          \* TRUE iff config.apisix_gateway_url is set
    redis_client,                \* "none", or a client whose calls work or all raise
    project_routing,             \* project id -> "none" | "direct" | "apisix"
    configured_apisix_projects,  \* keys of the dict of that name
    modules,                     \* module key -> instance, 0 when absent
    order,                       \* insertion order of the keys of module_metadata
    last_used,                   \* module_metadata[key]["last_used"]
    clock,                       \* datetime.utcnow()
    lock,                        \* ModuleManager.lock: holder, 0 when free
    inst,                        \* the module instances ever constructed
    task,                        \* the request coroutines
    sd,                          \* the shutdown_all coroutine
    request,                     \* a request as it arrives, before parsing
    extracted,                   \* what extract_project_id returned for it
    gateway,                     \* the gateway's resources and the configurator's caller
    cache,                       \* the projects with a live manifest:{id} entry
    sync,                        \* the sync_manifests coroutine
    split                        \* a call of _split_into_chunks

vars == << module_pool_size, apisix_client, apisix_gateway_url, redis_client,
           project_routing, configured_apisix_projects, modules, order, last_used,
           clock, lock, inst, task, sd, request, extracted, gateway, cache, sync, split >>

config_vars == << module_pool_size, apisix_client, apisix_gateway_url, redis_client >>
pool_vars == << modules, order, last_used >>
ext_vars == << request, extracted, gateway, cache, sync, split >>

(***************************************************************************)
(* The gateway configurator: configure_from_manifest turns the gateway     *)
(* modules of a manifest into admin calls.  Names are sequences of tokens, *)
(* so that the prefix tests and the hyphen replacement act as on strings.  *)
(* The manifest is the caller's dict, which the configurator writes to.    *)
(***************************************************************************)
startswith(s, prefix) ==
    Len(s) >= Len(prefix) /\ SubSeq(s, 1, Len(prefix)) = prefix

replace(s, old, new) == [i \in 1..Len(s) |-> IF s[i] = old THEN new ELSE s[i]]

\* f"{project_id}-{name}"
Prefixed(project_id, name) == project_id \o <<"-">> \o name

ResourceKinds == {"routes", "upstreams", "services", "consumers"}
AdminKinds == ResourceKinds \cup {"global_rules"}

\* the results dict configure_from_manifest starts from
NoResults ==
    [routes |-> <<>>, upstreams |-> <<>>, services |-> <<>>, consumers |-> <<>>,
     global_rules |-> <<>>, errors |-> <<>>]

\* the resources the gateway holds, by kind and id; the same for the "name"
\* (a consumer's username) in the value held for each resource, as pairs of
\* id and name
NoAdmin == [k \in AdminKinds |-> {}]

\* a PUT replaces the value held under the id
PutNamed(pairs, id, name) == { x \in pairs : x[1] # id } \cup { << id, name >> }

Route(name, inline) ==
    [name |-> name, id |-> <<>>, upstream |-> inline, upstream_id |-> <<>>,
     service_id |-> <<>>]

Upstream(name) == [name |-> name, id |-> <<>>]

GatewayConfig(consumer, service, upstreams, routes, global_plugins) ==
    [consumer |-> consumer, service |-> service, upstreams |-> upstreams,
     routes |-> routes, global_plugins |-> global_plugins]

ApisixName == <<"a","p","i","s","i","x">>

\* 1: a consumer, a service and a route linked to the service
\* 2: an upstream, a route with an inline upstream, and global plugins
\* 3: a project id with a hyphen; two gateway modules naming one consumer,
\*    a service whose id carries the prefix already
\* 4: the gateway module of project gw, its module_type in mixed case
\* 5: an upstream and a route that names it by upstream_id, no service, and
\*    global plugins (manifest_groq_apisix of create_test_manifests)
GatewayManifests ==
    << [project_id |-> <<"p">>,
        modules |-> << [module_type |-> ApiGatewayStr, name |-> ApisixName,
                        config |-> GatewayConfig(<< [username |-> <<"consumer">>] >>,
                                                 << [id |-> <<"service">>,
                                                     name |-> <<"service">>] >>,
                                                 <<>>,
                                                 << Route(<<"r1">>, FALSE) >>,
                                                 FALSE)] >>],
       [project_id |-> <<"q">>,
        modules |-> << [module_type |-> ApiGatewayStr, name |-> ApisixName,
                        config |-> GatewayConfig(<<>>, <<>>,
                                                 << Upstream(<<"u1">>) >>,
                                                 << Route(<<"r1">>, TRUE) >>,
                                                 TRUE)] >>],
       [project_id |-> <<"t", "-", "1">>,
        modules |-> << [module_type |-> ApiGatewayStr, name |-> ApisixName,
                        config |-> GatewayConfig(<< [username |-> <<"consumer">>] >>,
                                                 << [id |-> <<"t", "-", "1", "-", "service">>,
                                                     name |-> <<"service">>] >>,
                                                 <<>>, <<>>, FALSE)],
                       [module_type |-> ApiGatewayStr, name |-> ApisixName,
                        config |-> GatewayConfig(<< [username |-> <<"consumer">>] >>,
                                                 <<>>, <<>>,
                                                 << Route(<<"r1">>, FALSE) >>,
                                                 FALSE)] >>],
       [project_id |-> <<"gw">>,
        modules |-> << [module_type |-> Registry["gw"].modules[1].module_type,
                        name |-> Registry["gw"].modules[1].name,
                        config |-> GatewayConfig(<<>>, <<>>, <<>>,
                                                 << Route(<<"r1">>, FALSE) >>,
                                                 FALSE)] >>],
       [project_id |-> <<"g">>,
        modules |-> << [module_type |-> ApiGatewayStr, name |-> ApisixName,
                        config |-> GatewayConfig(<<>>, <<>>,
                                                 << Upstream(<<"u1">>) >>,
                                                 << [Route(<<"r1">>, FALSE) EXCEPT
                                                        !.upstream_id = <<"u1">>] >>,
                                                 TRUE)] >>] >>

\* the indices of the manifest's gateway modules, in order; line 52: the
\* module_type is compared as written, the name in lower case
apisix_modules(manifest) ==
    LET Test(i) == /\ manifest.modules[i].module_type = ApiGatewayStr
                   /\ Contains(Lower(manifest.modules[i].name), ApisixStr)
    IN SelectSeq([i \in 1..Len(manifest.modules) |-> i], Test)

\* the modules whose consumer is collected: the first of each username
RECURSIVE consumer_configs(_, _, _)
consumer_configs(manifest, mods, seen_consumer_usernames) ==
    IF mods = <<>> THEN <<>>
    ELSE LET consumer == manifest.modules[Head(mods)].config.consumer
         IN IF consumer # <<>> /\ consumer[1].username \notin seen_consumer_usernames
            THEN << Head(mods) >> \o
                 consumer_configs(manifest, Tail(mods),
                                  seen_consumer_usernames \cup {consumer[1].username})
            ELSE consumer_configs(manifest, Tail(mods), seen_consumer_usernames)

\* the modules whose service is collected: the first of each service id
RECURSIVE service_configs(_, _, _)
service_configs(manifest, mods, seen_service_ids) ==
    IF mods = <<>> THEN <<>>
    ELSE LET service == manifest.modules[Head(mods)].config.service
         IN IF service # <<>> /\ service[1].id \notin seen_service_ids
            THEN << Head(mods) >> \o
                 service_configs(manifest, Tail(mods),
                                 seen_service_ids \cup {service[1].id})
            ELSE service_configs(manifest, Tail(mods), seen_service_ids)

\* a create call that leaves a resource of its own beside the one that exists
PutByIdDuplicates(ids, id) ==
    IF id \in ids THEN ids \cup {id \o <<"+">>} ELSE ids \cup {id}

\* client.put to /apisix/admin/<kind>/{id}: the gateway creates the resource
\* of that id or replaces it
PutById(ids, id) == ids \cup {id}

\* the name field of the model a create call sends: a service has a name
\* of its own, every other resource is named as its id
NameSent(manifest, kind, id) ==
    LET named == { manifest.modules[m].config.service[1].name :
                   m \in { i \in 1..Len(manifest.modules) :
                           /\ manifest.modules[i].config.service # <<>>
                           /\ manifest.modules[i].config.service[1].id = id } }
    IN IF kind = "services" /\ named # {} THEN CHOOSE n \in named : TRUE ELSE id

\* one admin call that fails and leaves no entry in errors
AdminPutSilent(st, kind, id, msg) ==
    LET ok == (Len(st.log) + 1) \notin st.failing
        name == NameSent(st.manifest, kind, id)
    IN [st EXCEPT !.log = Append(@, [kind |-> kind, id |-> id, name |-> name,
                                     ok |-> ok]),
                  !.admin[kind] = IF ok THEN PutById(@, id) ELSE @,
                  !.results[kind] = IF ok THEN Append(@, id) ELSE @]

\* one create call of a manager inside its try block: a PUT by id; a
\* response other than 200/201 raises, and the except clause records it
AdminPut(st, kind, id, msg) ==
    LET ok == (Len(st.log) + 1) \notin st.failing
        name == NameSent(st.manifest, kind, id)
    IN [st EXCEPT !.log = Append(@, [kind |-> kind, id |-> id, name |-> name,
                                     ok |-> ok]),
                  !.admin[kind] = IF ok THEN PutById(@, id) ELSE @,
                  !.results[kind] = IF ok THEN Append(@, id) ELSE @,
                  !.results.errors = IF ok THEN @
                                     ELSE Append(@, [msg |-> msg, name |-> id])]

\* lines 86-105
RECURSIVE CreateConsumers(_, _)
CreateConsumers(st, idxs) ==
    IF idxs = <<>> THEN st
    ELSE LET m == Head(idxs)
             project_id == st.manifest.project_id
             username == st.manifest.modules[m].config.consumer[1].username
             prefixed == IF ~startswith(username, project_id \o <<"_">>)
                         THEN project_id \o <<"_">> \o username
                         ELSE username
             final == replace(prefixed, "-", "_")
             written == [st EXCEPT
                           !.manifest.modules[m].config.consumer[1].username = final]
         IN CreateConsumers(AdminPut(written, "consumers", final,
                                     "Failed to create consumer"),
                            Tail(idxs))

\* lines 107-126
RECURSIVE CreateServices(_, _)
CreateServices(st, idxs) ==
    IF idxs = <<>> THEN st
    ELSE LET m == Head(idxs)
             project_id == st.manifest.project_id
             service_config == st.manifest.modules[m].config.service[1]
             service_id == IF ~startswith(service_config.id, project_id \o <<"-">>)
                           THEN Prefixed(project_id, service_config.id)
                           ELSE service_config.id
             service_name == IF ~startswith(service_config.name, project_id \o <<"-">>)
                             THEN Prefixed(project_id, service_config.name)
                             ELSE service_config.name
             written == [st EXCEPT !.manifest.modules[m].config.service[1] =
                                       [id |-> service_id, name |-> service_name]]
         IN CreateServices(AdminPut(written, "services", service_id,
                                    "Failed to create service"),
                           Tail(idxs))

\* lines 133-147: the prefix is written whatever the name already is
RECURSIVE CreateUpstreams(_, _, _)
CreateUpstreams(st, m, j) ==
    IF j > Len(st.manifest.modules[m].config.upstreams) THEN st
    ELSE LET original_name == st.manifest.modules[m].config.upstreams[j].name
             id == Prefixed(st.manifest.project_id, original_name)
             written == [st EXCEPT !.manifest.modules[m].config.upstreams[j] =
                                       [name |-> id, id |-> id]]
         IN CreateUpstreams(AdminPut(written, "upstreams", id,
                                     "Failed to create upstream"),
                            m, j + 1)

InlineUpstreamId(project_id, original_route_name) ==
    Prefixed(project_id, original_route_name \o <<"-", "upstream">>)

\* lines 150-180: the inline upstream of a route becomes a resource of its
\* own; the mapping records the routes whose upstream was created
RECURSIVE CreateInlineUpstreams(_, _, _)
CreateInlineUpstreams(st, m, j) ==
    IF j > Len(st.manifest.modules[m].config.routes) THEN st
    ELSE LET route_config == st.manifest.modules[m].config.routes[j]
             upstream_id == InlineUpstreamId(st.manifest.project_id, route_config.name)
             put == AdminPut(st, "upstreams", upstream_id,
                             "Failed to create inline upstream for route")
             ok == put.log[Len(put.log)].ok
         IN IF route_config.upstream
            THEN CreateInlineUpstreams(
                     [put EXCEPT !.upstream_id_mapping =
                                     IF ok THEN @ \cup {route_config.name} ELSE @],
                     m, j + 1)
            ELSE CreateInlineUpstreams(st, m, j + 1)

\* lines 183-231: the prefix is written whatever the name already is
RECURSIVE CreateRoutes(_, _, _)
CreateRoutes(st, m, j) ==
    IF j > Len(st.manifest.modules[m].config.routes) THEN st
    ELSE LET route_config == st.manifest.modules[m].config.routes[j]
             project_id == st.manifest.project_id
             original_name == route_config.name
             id == Prefixed(project_id, original_name)
             linked == IF route_config.upstream
                       THEN IF original_name \in st.upstream_id_mapping
                            THEN [route_config EXCEPT
                                    !.upstream_id = InlineUpstreamId(project_id,
                                                                     original_name),
                                    !.upstream = FALSE]
                            ELSE route_config
                       ELSE [route_config EXCEPT
                               !.service_id = Prefixed(project_id, <<"service">>)]
             written == [st EXCEPT !.manifest.modules[m].config.routes[j] =
                                       [linked EXCEPT !.name = id, !.id = id]]
         IN CreateRoutes(AdminPut(written, "routes", id, "Failed to create route"),
                         m, j + 1)

\* lines 129-231: the loop over the gateway modules
RECURSIVE ProcessModules(_, _)
ProcessModules(st, mods) ==
    IF mods = <<>> THEN st
    ELSE LET m == Head(mods)
             upstreams == CreateUpstreams(st, m, 1)
             inline == CreateInlineUpstreams(
                           [upstreams EXCEPT !.upstream_id_mapping = {}], m, 1)
         IN ProcessModules(CreateRoutes(inline, m, 1), Tail(mods))

\* lines 233-251
SetGlobalPlugins(st, mods) ==
    IF \E i \in 1..Len(mods) : st.manifest.modules[mods[i]].config.global_plugins
    THEN AdminPut(st, "global_rules",
                  Prefixed(st.manifest.project_id, <<"global", "-", "plugins">>),
                  "Failed to set global plugins")
    ELSE st

\* configure_from_manifest on the caller's manifest, against the resources
\* the gateway holds, the admin calls whose number is in failing failing
configure_from_manifest(manifest, admin, failing) ==
    LET st == [manifest |-> manifest, admin |-> admin, results |-> NoResults,
               log |-> <<>>, failing |-> failing, upstream_id_mapping |-> {}]
        mods == apisix_modules(manifest)
    IN IF mods = <<>>
       THEN [st EXCEPT !.results.errors =
                           << [msg |-> "No APISIX gateway module found in manifest",
                               name |-> <<>>] >>]
       ELSE SetGlobalPlugins(
                ProcessModules(
                    CreateServices(
                        CreateConsumers(st, consumer_configs(manifest, mods, {})),
                        service_configs(manifest, mods, {})),
                    mods),
                mods)

\* the number of admin calls one application of the manifest makes

\* the admin calls one sync of project p makes, in order: those of
\* configure_from_manifest on response.json() of GET /manifests/{project_id},
\* the gateway section of the registry's document for the project
AdminCalls(p) ==
    LET ms == { m \in 1..Len(GatewayManifests) : Str(GatewayManifests[m].project_id) = p }
        manifest == IF ms = {} THEN [project_id |-> << p >>, modules |-> <<>>]
                    ELSE GatewayManifests[CHOOSE m \in ms : TRUE]
    IN configure_from_manifest(manifest, NoAdmin, {}).log

\* the values the gateway holds once the admin calls of a log were made
RECURSIVE NamesAfter(_, _)
NamesAfter(names, log) ==
    IF log = <<>> THEN names
    ELSE NamesAfter(IF Head(log).ok
                    THEN [names EXCEPT ![Head(log).kind] =
                                          PutNamed(@, Head(log).id, Head(log).name)]
                    ELSE names,
                    Tail(log))

\* cleanup_project_resources lines 265-305: the routes, upstreams and
\* services whose name starts with the project id and a hyphen are deleted
\* by id, then the consumer named project_id-consumer.  A list call of a
\* kind in failing raises, which ends the cleanup with one error; a delete
\* the gateway refuses leaves its resource and is not counted.
cleanup_project_resources(project_id, admin, names, failing, refused) ==
    LET Matching(k) == { x[1] : x \in { y \in names[k] :
                                           startswith(y[2], project_id \o <<"-">>) } }
        Deleted(k) == { id \in Matching(k) : << k, id >> \notin refused }
        consumer_username == project_id \o <<"-", "consumer">>
        reached == IF "routes" \in failing THEN {}
                   ELSE IF "upstreams" \in failing THEN {"routes"}
                   ELSE IF "services" \in failing THEN {"routes", "upstreams"}
                   ELSE {"routes", "upstreams", "services", "consumers"}
        Gone(k) == IF k \notin reached THEN {}
                   ELSE IF k = "consumers"
                   THEN { id \in {consumer_username} :
                            /\ id \in admin[k]
                            /\ "consumers" \notin failing
                            /\ << k, id >> \notin refused }
                   ELSE IF k \in ResourceKinds THEN Deleted(k) ELSE {}
    IN [admin |-> [k \in AdminKinds |-> admin[k] \ Gone(k)],
        names |-> [k \in AdminKinds |-> { x \in names[k] : x[1] \notin Gone(k) }],
        results |-> [deleted_routes |-> Cardinality(Gone("routes")),
                     deleted_upstreams |-> Cardinality(Gone("upstreams")),
                     deleted_services |-> Cardinality(Gone("services")),
                     deleted_consumers |-> Cardinality(Gone("consumers")),
                     errors |-> IF "consumers" \in reached THEN <<>>
                                ELSE << "Failed to cleanup project resources" >>]]

\* the resources a sync of every project in ps leaves in the gateway when
\* every admin call succeeds
AdminAfterSync(ps) ==
    [k \in AdminKinds |->
        UNION { { AdminCalls(p)[i].id :
                  i \in { j \in 1..Len(AdminCalls(p)) : AdminCalls(p)[j].kind = k } } :
                p \in ps }]

NoInst ==
    [key |-> <<>>, manifest |-> None, runtime_references |-> {}, status |-> "none",
     shutdown_calls |-> 0, pooled |-> FALSE]

IdleTask ==
    [pc |-> "idle", project |-> None, method |-> "GET", module |-> 0, found |-> 0,
     evicted |-> 0, exc |-> "none", status_code |-> 0, upstream |-> 0,
     handled |-> 0, calls |-> 0, errors |-> 0, registry |-> "none"]

\* no request under examination, nothing applied to the gateway
NoRequest == [url_path |-> <<>>, x_project_id |-> "", host |-> <<>>, method |-> "NONE"]
\* no manifest loaded; cleanup is the last cleanup: its project, whether
\* every admin call of it succeeded, and what it returned
NoGateway ==
    [manifest |-> [project_id |-> <<>>, modules |-> <<>>], source |-> 0, last |-> 0,
     admin |-> NoAdmin, names |-> NoAdmin, results |-> NoResults, log |-> <<>>,
     applied |-> 0,
     cleanup |-> [project_id |-> <<>>, succeeded |-> FALSE, results |-> <<>>,
                  count |-> 0]]

\* sync_manifests not running: the projects still to analyze, the project
\* under analysis with its routing entry as the analysis found it, the admin
\* calls made and failed for it, and the projects the run analyzed and
\* those whose fetch or configuration failed
NoSync ==
    [pc |-> "idle", todo |-> <<>>, project |-> None, before |-> "none", calls |-> 0,
     errors |-> 0, analyzed |-> {}, failed |-> {}]

\* _split_into_chunks not called
NoSplit ==
    [pc |-> "idle", document |-> <<>>, chunk_size |-> 0, chunk_overlap |-> 0,
     start |-> 0, chunks |-> <<>>, num_chunks |-> 0]

\* the front door after construction and initialize without the startup sync
Service(clients) ==
    /\ module_pool_size \in PoolSizes
    /\ apisix_client \in BOOLEAN
    /\ apisix_gateway_url \in BOOLEAN
    /\ redis_client \in clients
    /\ project_routing = [p \in Projects |-> "none"]
    /\ configured_apisix_projects = {}
    /\ modules = [k \in Keys |-> 0]
    /\ order = <<>>
    /\ last_used = [k \in Keys |-> 0]
    /\ clock = 0
    /\ lock = 0
    /\ inst = [i \in Inst |-> NoInst]
    /\ task = [t \in Tasks |-> IdleTask]
    /\ sd = [pc |-> "idle", keys |-> <<>>]
    /\ request = NoRequest
    /\ extracted = "unset"
    /\ gateway = NoGateway
    /\ cache = {}
    /\ sync = NoSync

\* the state after construction: no workflow node is running
Started(clients) ==
    /\ Service(clients)
    /\ split = NoSplit

\* redis_url defaults to None
Init == Started({"none"})

(* ------------------------------ helpers -------------------------------- *)
Min2(a, b) == IF a < b THEN a ELSE b

\* datetime.utcnow(): never decreases, two reads may return the same value
NowSet == {clock} \cup (IF clock < MaxClock THEN {clock + 1} ELSE {})

FreeInst == { i \in Inst : inst[i].status = "none" }
NextInst == IF FreeInst = {} THEN 0 ELSE CHOOSE i \in FreeInst : \A j \in FreeInst : i <= j

KeyOf(t) == _get_module_key(Registry[task[t].project])

Range(s) == { s[i] : i \in 1..Len(s) }

RECURSIVE Without(_, _)
Without(s, k) ==
    IF s = <<>> THEN <<>>
    ELSE IF Head(s) = k THEN Without(Tail(s), k)
    ELSE <<Head(s)>> \o Without(Tail(s), k)

OldestKeyFifo(ord, lu) == ord[1]

\* min(self.module_metadata.keys(), key=last_used): the first minimal key in
\* the dict's iteration (insertion) order
OldestKey(ord, lu) ==
    ord[CHOOSE i \in 1..Len(ord) :
            \A j \in 1..Len(ord) :
                \/ lu[ord[j]] > lu[ord[i]]
                \/ (lu[ord[j]] = lu[ord[i]] /\ j >= i)]

PoolFullOffByOne(ord, size) == Len(ord) > size

\* the pool-size test of get_or_create_module
PoolFull(ord, size) == Len(ord) >= size

\* module.shutdown() is entered: BaseModule.shutdown sets SHUTTING_DOWN first
CallShutdown(ins, i) ==
    [ins EXCEPT ![i].status = "shutting_down",
                ![i].shutdown_calls = Min2(@ + 1, 2)]

\* the response of handle_request
Done(tr, code, exc) ==
    [IdleTask EXCEPT !.pc = "done", !.status_code = code, !.exc = exc]

DispatchUnroutedDirect(tr, mode) ==
    IF mode = "apisix"
    THEN IF ~apisix_client \/ ~apisix_gateway_url
         THEN Done(tr, 503, "none")
         ELSE [tr EXCEPT !.pc = "gw_forward"]
    ELSE [tr EXCEPT !.pc = "get_manifest"]

DispatchAlwaysDirect(tr, mode) ==
    IF mode = "none" THEN Done(tr, 404, "none") ELSE [tr EXCEPT !.pc = "get_manifest"]

\* handle_request lines 369-379, entered with the routing mode just read
Dispatch(tr, mode) ==
    IF mode = "apisix"
    THEN IF ~apisix_client \/ ~apisix_gateway_url
         THEN Done(tr, 503, "none")
         ELSE [tr EXCEPT !.pc = "gw_forward"]
    ELSE IF mode = "direct"
    THEN [tr EXCEPT !.pc = "get_manifest"]
    ELSE Done(tr, 404, "none")

\* route_to_module after get_or_create_module returned instance i: the body
\* is awaited for POST, PUT and PATCH, then module.process_request is called
Returned(tr, i) ==
    IF tr.method \in { "POST", "PUT", "PATCH" }
    THEN [tr EXCEPT !.module = i, !.found = 0, !.evicted = 0, !.pc = "body"]
    ELSE [tr EXCEPT !.module = i, !.found = 0, !.evicted = 0, !.pc = "process"]

(* --------------------- UnifiedFrontDoorService ------------------------- *)
\* a cache read whose exception is not caught
cache_get_raising(client, entries, p) ==
    IF client = "failing" THEN "error"
    ELSE IF client = "ok" /\ p \in entries THEN "hit" ELSE "miss"

\* get_manifest lines 494-501: without a client the cache is not asked; an
\* exception of the client is logged and the registry is asked
cache_get(client, entries, p) ==
    IF client = "ok" /\ p \in entries THEN "hit" ELSE "miss"

\* setex where a client exists; its exception is caught (get_manifest
\* 518-527, analyze_and_configure_project 341-350)
cache_put(client, entries, p) ==
    IF client = "ok" THEN entries \cup {p} ELSE entries

NeedsSyncAlways(mode) == TRUE

\* handle_request line 364: routing_mode is None
NeedsSync(mode) == mode = "none"

\* self.project_routing.get(project_id)
RoutingGet(pid) ==
    IF pid \in DOMAIN project_routing THEN project_routing[pid] ELSE "none"

\* handle_request up to its first await
HandleRequest(t, req) ==
    /\ task[t].pc \in {"idle", "done"}
    /\ sd.pc = "idle"
    /\ LET pid == extract_project_id(req)
           tr == [IdleTask EXCEPT !.project = pid, !.method = req.method]
       IN  IF pid = None \/ pid = ""
           THEN task' = [task EXCEPT ![t] = Done(tr, 400, "none")]
           ELSE IF NeedsSync(RoutingGet(pid))
           THEN task' = [task EXCEPT ![t] = [tr EXCEPT !.pc = "analyze"]]
           ELSE task' = [task EXCEPT ![t] =
                            Dispatch(tr, RoutingGet(pid))]
    /\ UNCHANGED << config_vars, ext_vars, project_routing, configured_apisix_projects,
                    pool_vars, clock, lock, inst, sd >>

\* analyze_and_configure_project: the registry answered the manifest fetch
AnalyzeFetch(t) ==
    /\ task[t].pc = "analyze"
    /\ LET p == task[t].project IN
       \E outcome \in {"ok", "non200", "error"} :
          IF outcome = "ok"
          THEN LET mode == RoutingModeOf(Registry[p], apisix_client) IN
               /\ project_routing' = [project_routing EXCEPT ![p] = mode]
               /\ IF mode = "apisix"
                  THEN /\ task' = [task EXCEPT ![t].pc = "configure",
                                               ![t].registry = outcome]
                       /\ UNCHANGED cache
                  ELSE /\ task' = [task EXCEPT ![t] =
                                      [Dispatch(task[t], mode) EXCEPT !.registry = outcome]]
                       /\ cache' = cache_put(redis_client, cache, p)
          ELSE LET d == Dispatch(task[t], project_routing[p]) IN
               /\ UNCHANGED << project_routing, cache >>
               /\ task' = [task EXCEPT ![t] =
                     [(IF outcome = "error" /\ d.pc = "done" /\ d.status_code = 404
                       THEN [d EXCEPT !.exc = "registry_unreachable"]
                       ELSE d) EXCEPT !.registry = outcome]]
    /\ UNCHANGED << config_vars, request, extracted, sync, split, gateway,
                    configured_apisix_projects,
                    pool_vars, clock, lock, inst, sd >>

\* analyze_and_configure_project inside configure_from_manifest: the next
\* admin call of the sync completed (each is awaited, and its failure is
\* collected); after the last one configure_from_manifest returned or
\* raised, and the request goes on
AnalyzeConfigure(t) ==
    /\ task[t].pc = "configure"
    /\ LET p == task[t].project
           plan == AdminCalls(p)
       IN IF task[t].calls < Len(plan)
          THEN LET c == plan[task[t].calls + 1] IN
               \E ok \in BOOLEAN :
                  /\ gateway' = [gateway EXCEPT
                                    !.admin[c.kind] = IF ok THEN PutById(@, c.id) ELSE @,
                                    !.names[c.kind] = IF ok THEN PutNamed(@, c.id, c.name)
                                                      ELSE @]
                  /\ task' = [task EXCEPT ![t].calls = @ + 1,
                                          ![t].errors = IF ok THEN @ ELSE @ + 1]
                  /\ UNCHANGED configured_apisix_projects
          ELSE /\ \E ok \in BOOLEAN :
                    configured_apisix_projects' =
                        IF ok THEN configured_apisix_projects \cup {p}
                        ELSE configured_apisix_projects
               /\ task' = [task EXCEPT ![t] = Dispatch(task[t], project_routing[p])]
               /\ UNCHANGED gateway
    /\ UNCHANGED << config_vars, request, extracted, sync, split, cache,
                    project_routing, pool_vars,
                    clock, lock, inst, sd >>

GatewayStatuses == {200, 404, 500}

GatewayFailureAlways500(exc) == 500

\* the except clauses of route_through_apisix and of handle_request
GatewayFailureStatus(exc) ==
    CASE exc = "gateway_timeout" -> 504
      [] exc = "gateway_request_error" -> 502
      [] OTHER -> 500

\* route_through_apisix: the forwarded request completed; upstream is the
\* status code the gateway answered with
RouteThroughApisix(t) ==
    /\ task[t].pc = "gw_forward"
    /\ \/ \E code \in GatewayStatuses :
            task' = [task EXCEPT ![t] =
                        [Done(task[t], code, "none") EXCEPT !.upstream = code]]
       \/ \E exc \in {"gateway_timeout", "gateway_request_error", "gateway_other"} :
            task' = [task EXCEPT ![t] =
                        Done(task[t], GatewayFailureStatus(exc), exc)]
    /\ UNCHANGED << config_vars, ext_vars, project_routing, configured_apisix_projects,
                    pool_vars, clock, lock, inst, sd >>

\* route_to_module: get_manifest and get_runtime_references completed.  A
\* cached manifest is returned without asking the registry; otherwise the
\* registry's answer decides, and a manifest it returned is cached.  An
\* exception that left get_manifest would end the request in the generic
\* except clause of handle_request.
GetManifest(t) ==
    /\ task[t].pc = "get_manifest"
    /\ LET p == task[t].project
           cached == cache_get(redis_client, cache, p)
       IN CASE cached = "hit" ->
                 /\ task' = [task EXCEPT ![t].pc = "lock_wait"]
                 /\ UNCHANGED cache
            [] cached = "miss" ->
                 \E outcome \in {"ok", "non200", "error"} :
                    /\ task' = [task EXCEPT ![t] =
                          CASE outcome = "ok" ->
                                 [task[t] EXCEPT !.pc = "lock_wait", !.registry = outcome]
                            [] outcome = "non200" ->
                                 [Done(task[t], 404, "none") EXCEPT !.registry = outcome]
                            [] OTHER ->
                                 [Done(task[t], 404, "registry_unreachable")
                                    EXCEPT !.registry = outcome]]
                    /\ cache' = IF outcome = "ok" THEN cache_put(redis_client, cache, p)
                                ELSE cache
            [] OTHER ->
                 /\ task' = [task EXCEPT ![t] = Done(task[t], 500, "cache_error")]
                 /\ UNCHANGED cache
    /\ UNCHANGED << config_vars, request, extracted, sync, split, gateway, project_routing,
                    configured_apisix_projects, pool_vars, clock, lock, inst, sd >>

\* setex(cache_key, cache_ttl, ...): the entry of a project expired
CacheExpire(p) ==
    /\ p \in cache
    /\ cache' = cache \ {p}
    /\ UNCHANGED << config_vars, request, extracted, sync, split, gateway, project_routing,
                    configured_apisix_projects, pool_vars, clock, lock, inst, task, sd >>

\* response.json().get("manifests"): the summaries the registry lists, one
\* of them without a project_id
ManifestList == << "p", None, "gw", "acme", "a", "b", "c", "d", "e", "r" >>

\* sync_manifests up to the await of GET /manifests
SyncManifestsStart ==
    /\ sync.pc = "idle"
    /\ sync' = [NoSync EXCEPT !.pc = "list"]
    /\ UNCHANGED << config_vars, request, extracted, split, gateway, cache,
                    project_routing, configured_apisix_projects, pool_vars, clock, lock,
                    inst, task, sd >>

\* the loop of sync_manifests goes on with the next listed project, the
\* entries without a project_id skipped, or returns
SyncNext(sy, todo) ==
    LET Named(project_id) == project_id # None
        rest == SelectSeq(todo, Named)
    IN
    IF rest = <<>>
    THEN [sy EXCEPT !.pc = "done", !.todo = <<>>, !.project = None, !.calls = 0,
                    !.errors = 0]
    ELSE [sy EXCEPT !.pc = "analyze", !.todo = Tail(rest), !.project = Head(rest),
                    !.before = RoutingGet(Head(rest)), !.calls = 0, !.errors = 0]

\* the registry answered GET /manifests; any other answer than 200, and an
\* exception, end the sync
SyncManifestsList ==
    /\ sync.pc = "list"
    /\ \E outcome \in {"ok", "non200", "error"} :
          sync' = IF outcome = "ok" THEN SyncNext(sync, ManifestList)
                  ELSE [sync EXCEPT !.pc = "done"]
    /\ UNCHANGED << config_vars, request, extracted, split, gateway, cache,
                    project_routing, configured_apisix_projects, pool_vars, clock, lock,
                    inst, task, sd >>

\* analyze_and_configure_project called by sync_manifests: the registry
\* answered the manifest fetch
SyncAnalyzeFetch ==
    /\ sync.pc = "analyze"
    /\ LET p == sync.project IN
       \E outcome \in {"ok", "non200", "error"} :
          IF outcome = "ok"
          THEN LET mode == RoutingModeOf(Registry[p], apisix_client) IN
               /\ project_routing' = [project_routing EXCEPT ![p] = mode]
               /\ IF mode = "apisix"
                  THEN /\ sync' = [sync EXCEPT !.pc = "configure"]
                       /\ UNCHANGED cache
                  ELSE /\ sync' = SyncNext([sync EXCEPT !.analyzed = @ \cup {p}],
                                           sync.todo)
                       /\ cache' = cache_put(redis_client, cache, p)
          ELSE /\ sync' = SyncNext([sync EXCEPT !.analyzed = @ \cup {p},
                                                !.failed = @ \cup {p}],
                                   sync.todo)
               /\ UNCHANGED << project_routing, cache >>
    /\ UNCHANGED << config_vars, request, extracted, split, gateway,
                    configured_apisix_projects, pool_vars, clock, lock, inst, task, sd >>

\* analyze_and_configure_project called by sync_manifests, inside
\* configure_from_manifest: the next admin call completed; after the last
\* one configure_from_manifest returned or raised
SyncAnalyzeConfigure ==
    /\ sync.pc = "configure"
    /\ LET p == sync.project
           plan == AdminCalls(p)
       IN IF sync.calls < Len(plan)
          THEN LET c == plan[sync.calls + 1] IN
               \E ok \in BOOLEAN :
                  /\ gateway' = [gateway EXCEPT
                                    !.admin[c.kind] = IF ok THEN PutById(@, c.id) ELSE @,
                                    !.names[c.kind] = IF ok THEN PutNamed(@, c.id, c.name)
                                                      ELSE @]
                  /\ sync' = [sync EXCEPT !.calls = @ + 1,
                                          !.errors = IF ok THEN @ ELSE @ + 1]
                  /\ UNCHANGED configured_apisix_projects
          ELSE /\ \E ok \in BOOLEAN :
                    /\ configured_apisix_projects' =
                          IF ok THEN configured_apisix_projects \cup {p}
                          ELSE configured_apisix_projects
                    /\ sync' = SyncNext(
                          [sync EXCEPT !.analyzed = @ \cup {p},
                                       !.failed = IF ok /\ sync.errors = 0 THEN @
                                                  ELSE @ \cup {p}],
                          sync.todo)
               /\ UNCHANGED gateway
    /\ UNCHANGED << config_vars, request, extracted, split, cache, project_routing,
                    pool_vars, clock, lock, inst, task, sd >>

(* ------------------------- LangGraphWorkflowModule --------------------- *)
MaxDoc == 4
MaxChunkSize == 3
MaxOverlap == 3
MaxChunks == 6

Max2(a, b) == IF a > b THEN a ELSE b

\* document[start:end]: a slice index that is negative counts from the end,
\* and the result is clamped to 0..len
Slice(document, start, end) ==
    LET SliceIndex(i, len) == IF i < 0 THEN Max2(i + len, 0) ELSE Min2(i, len)
        lo == SliceIndex(start, Len(document))
        hi == SliceIndex(end, Len(document))
    IN  IF lo >= hi THEN <<>> ELSE SubSeq(document, lo + 1, hi)

\* one iteration of the while loop of _split_into_chunks
SplitLoop ==
    /\ split.pc = "loop"
    /\ split.start < Len(split.document)
    /\ LET end == split.start + split.chunk_size
           chunk == Slice(split.document, split.start, end)
       IN  \* chunks.append(chunk): chunks after the first MaxChunks are not
           \* kept; start = end - chunk_overlap: a start below the least one
           \* told apart is clamped to the beginning of the document as that
           split' = [split EXCEPT
                        !.chunks = IF Len(@) < MaxChunks THEN Append(@, chunk) ELSE @,
                        !.start = Max2(end - split.chunk_overlap,
                                       0 - (MaxDoc + MaxOverlap))]
    /\ UNCHANGED << config_vars, request, extracted, sync, gateway, cache,
                    project_routing, configured_apisix_projects, pool_vars, clock, lock,
                    inst, task, sd >>

\* the loop is left: state["chunks"] and metadata num_chunks are stored
SplitReturn ==
    /\ split.pc = "loop"
    /\ ~(split.start < Len(split.document))
    /\ split' = [split EXCEPT !.pc = "done", !.num_chunks = Len(split.chunks)]
    /\ UNCHANGED << config_vars, request, extracted, sync, gateway, cache,
                    project_routing, configured_apisix_projects, pool_vars, clock, lock,
                    inst, task, sd >>

(* --------------------------- ModuleManager ----------------------------- *)
\* _create_module up to the await of instance.initialize
Create(t, tr, ins) ==
    IF ~CanInstantiate(Registry[tr.project])
    THEN /\ lock' = 0
         /\ inst' = ins
         /\ task' = [task EXCEPT ![t] = Done(tr, 500, "create_error")]
    ELSE /\ NextInst # 0
         /\ lock' = t
         /\ inst' = [ins EXCEPT ![NextInst] =
                        [key |-> _get_module_key(Registry[tr.project]),
                         manifest |-> tr.project,
                         runtime_references |->
                            get_runtime_references(Registry[tr.project]),
                         status |-> "initializing", shutdown_calls |-> 0,
                         pooled |-> FALSE]]
         /\ task' = [task EXCEPT ![t] =
                        [tr EXCEPT !.pc = "init", !.module = NextInst]]

\* get_or_create_module lines 134-141: insert, release the lock, return
Insert(t, tr, ins, mods, ord, lu) ==
    LET key == _get_module_key(Registry[tr.project])
        i == tr.module
    IN  \E now \in NowSet :
          /\ modules' = [mods EXCEPT ![key] = i]
          /\ order' = IF key \in Range(ord) THEN ord ELSE Append(ord, key)
          /\ last_used' = [lu EXCEPT ![key] = now]
          /\ clock' = now
          /\ inst' = [ins EXCEPT ![i].pooled = TRUE]
          /\ lock' = 0
          /\ task' = [task EXCEPT ![t] = Returned(tr, i)]

LockFreeUnguarded(l) == TRUE

\* asyncio.Lock: acquire() returns only while no coroutine holds the lock
LockFree(l) == l = 0

\* async with self.lock, then the lookup of line 118
AcquireLock(t) ==
    /\ task[t].pc = "lock_wait"
    /\ LockFree(lock)
    /\ IF modules[KeyOf(t)] # 0
       THEN /\ lock' = t
            /\ task' = [task EXCEPT ![t].pc = "health", ![t].found = modules[KeyOf(t)]]
            /\ UNCHANGED inst
       ELSE Create(t, task[t], inst)
    /\ UNCHANGED << config_vars, ext_vars, project_routing, configured_apisix_projects,
                    pool_vars, clock, sd >>

RemoveUnhealthySkipped(t) ==
    /\ Create(t, task[t], inst)
    /\ UNCHANGED << pool_vars, clock >>

\* get_or_create_module line 125: _remove_module(module_key) up to its await
RemoveUnhealthy(t) ==
    IF modules[KeyOf(t)] # 0
    THEN /\ inst' = CallShutdown(inst, modules[KeyOf(t)])
         /\ task' = [task EXCEPT ![t].pc = "remove_shutdown"]
         /\ UNCHANGED << pool_vars, clock, lock >>
    ELSE /\ Create(t, task[t], inst)
         /\ UNCHANGED << pool_vars, clock >>

\* module.health_check() returned
HealthCheckDone(t) ==
    /\ task[t].pc = "health"
    /\ LET key == KeyOf(t)
           i == task[t].found
       IN  \E healthy \in BOOLEAN :
             /\ healthy => inst[i].status = "ready"
             /\ IF healthy
                THEN IF modules[key] = 0
                     THEN \* module_metadata[module_key] raises KeyError
                          /\ lock' = 0
                          /\ task' = [task EXCEPT ![t] =
                                Done(task[t], 500, "key_error")]
                          /\ UNCHANGED << pool_vars, clock, inst >>
                     ELSE \E now \in NowSet :
                          /\ last_used' = [last_used EXCEPT ![key] = now]
                          /\ clock' = now
                          /\ lock' = 0
                          /\ task' = [task EXCEPT ![t] =
                                Returned(task[t], i)]
                          /\ UNCHANGED << modules, order, inst >>
                ELSE RemoveUnhealthy(t)
    /\ UNCHANGED << config_vars, ext_vars, project_routing, configured_apisix_projects, sd >>

\* _remove_module of the unhealthy instance: shutdown returned or raised
RemoveShutdownDone(t) ==
    /\ task[t].pc = "remove_shutdown"
    /\ LET key == KeyOf(t) IN
       \E ok \in BOOLEAN :
          IF ok /\ modules[key] # 0
          THEN /\ modules' = [modules EXCEPT ![key] = 0]
               /\ order' = Without(order, key)
               /\ last_used' = [last_used EXCEPT ![key] = 0]
               /\ Create(t, task[t], inst)
          ELSE /\ lock' = 0
               /\ task' = [task EXCEPT ![t] =
                     Done(task[t], 500, IF ok THEN "key_error" ELSE "shutdown_raised")]
               /\ UNCHANGED << pool_vars, inst >>
    /\ UNCHANGED << config_vars, ext_vars, project_routing, configured_apisix_projects,
                    clock, sd >>

InitializeRaisedSwallowed(t) ==
    Insert(t, task[t], inst, modules, order, last_used)

\* instance.initialize(config) raised: the exception leaves get_or_create_module
\* through the lock and is mapped to 500 by route_to_module
InitializeRaised(t) ==
    /\ lock' = 0
    /\ task' = [task EXCEPT ![t] = Done(task[t], 500, "init_raised")]
    /\ UNCHANGED << pool_vars, clock, inst >>

\* instance.initialize(config) returned or raised; then lines 130-141
InitializeDone(t) ==
    /\ task[t].pc = "init"
    /\ LET i == task[t].module
           ready == [inst EXCEPT ![i].status = "ready"]
       IN  \E ok \in BOOLEAN :
             IF ~ok
             THEN InitializeRaised(t)
             ELSE IF PoolFull(order, module_pool_size) /\ order # <<>>
             THEN \* _evict_oldest_module: the victim's shutdown is awaited
                  LET victim == modules[OldestKey(order, last_used)] IN
                  /\ inst' = CallShutdown(ready, victim)
                  /\ task' = [task EXCEPT ![t].pc = "evict_shutdown",
                                          ![t].evicted = victim]
                  /\ UNCHANGED << pool_vars, clock, lock >>
             ELSE Insert(t, task[t], ready, modules, order, last_used)
    /\ UNCHANGED << config_vars, ext_vars, project_routing, configured_apisix_projects, sd >>

\* _remove_module of the eviction victim: shutdown returned or raised
EvictShutdownDone(t) ==
    /\ task[t].pc = "evict_shutdown"
    /\ LET vkey == inst[task[t].evicted].key IN
       \E ok \in BOOLEAN :
          IF ok /\ modules[vkey] # 0
          THEN Insert(t, task[t], inst,
                      [modules EXCEPT ![vkey] = 0], Without(order, vkey),
                      [last_used EXCEPT ![vkey] = 0])
          ELSE /\ lock' = 0
               /\ task' = [task EXCEPT ![t] =
                     Done(task[t], 500, IF ok THEN "key_error" ELSE "shutdown_raised")]
               /\ UNCHANGED << pool_vars, clock, inst >>
    /\ UNCHANGED << config_vars, ext_vars, project_routing, configured_apisix_projects, sd >>

\* route_to_module: request.body() returned, module.process_request is called
ReadBody(t) ==
    /\ task[t].pc = "body"
    /\ task' = [task EXCEPT ![t].pc = "process"]
    /\ UNCHANGED << config_vars, ext_vars, project_routing, configured_apisix_projects,
                    pool_vars, clock, lock, inst, sd >>

\* the method route_to_module calls on the instance
DispatcherMethod == "process_request"

\* module.process_request: the attribute lookup fails, or the call returned
\* or raised; handled counts the calls of handle_request
ProcessRequestDone(t) ==
    /\ task[t].pc = "process"
    /\ LET impl == Registry[inst[task[t].module].manifest].implementation
           calls == IF DispatcherMethod = "handle_request" THEN 1 ELSE 0
       IN  IF DispatcherMethod \notin ClassMethods(impl)
           THEN task' = [task EXCEPT ![t] =
                    Done(task[t], 500, "attribute_error")]
           ELSE \E ok \in BOOLEAN :
                  task' = [task EXCEPT ![t] =
                    [(IF ok THEN Done(task[t], 200, "none")
                      ELSE Done(task[t], 500, "handler_raised"))
                     EXCEPT !.handled = calls]]
    /\ UNCHANGED << config_vars, ext_vars, project_routing, configured_apisix_projects,
                    pool_vars, clock, lock, inst, sd >>

(* ----------------------------- shutdown_all ---------------------------- *)
RECURSIVE DropAbsent(_, _)
DropAbsent(keys, mods) ==
    IF keys = <<>> THEN <<>>
    ELSE IF mods[Head(keys)] = 0 THEN DropAbsent(Tail(keys), mods)
    ELSE keys

\* the for loop of shutdown_all up to the next awaited shutdown
ShutdownLoop(keys, mods, ins) ==
    LET rest == DropAbsent(keys, mods) IN
    IF rest = <<>>
    THEN /\ sd' = [pc |-> "done", keys |-> <<>>]
         /\ inst' = ins
    ELSE /\ sd' = [pc |-> "wait", keys |-> rest]
         /\ inst' = CallShutdown(ins, mods[Head(rest)])

ShutdownAllStart ==
    /\ sd.pc = "idle"
    /\ ShutdownLoop(order, modules, inst)
    /\ UNCHANGED << config_vars, ext_vars, project_routing, configured_apisix_projects,
                    pool_vars, clock, lock, task >>

\* _remove_module inside shutdown_all: shutdown returned or raised
ShutdownAllStep ==
    /\ sd.pc = "wait"
    /\ LET key == Head(sd.keys) IN
       \E ok \in BOOLEAN :
          IF ok /\ modules[key] # 0
          THEN /\ modules' = [modules EXCEPT ![key] = 0]
               /\ order' = Without(order, key)
               /\ last_used' = [last_used EXCEPT ![key] = 0]
               /\ ShutdownLoop(Tail(sd.keys), [modules EXCEPT ![key] = 0], inst)
          ELSE /\ sd' = [pc |-> "failed", keys |-> <<>>]
               /\ UNCHANGED << pool_vars, inst >>
    /\ UNCHANGED << config_vars, ext_vars, project_routing, configured_apisix_projects,
                    clock, lock, task >>

PoolStep ==
    \/ \E t \in Tasks : GetManifest(t)
    \/ \E t \in Tasks : AcquireLock(t)
    \/ \E t \in Tasks : HealthCheckDone(t)
    \/ \E t \in Tasks : RemoveShutdownDone(t)
    \/ \E t \in Tasks : InitializeDone(t)
    \/ \E t \in Tasks : EvictShutdownDone(t)
    \/ \E t \in Tasks : ReadBody(t)
    \/ \E t \in Tasks : ProcessRequestDone(t)

Next ==
    \/ \E t \in Tasks, req \in Requests : HandleRequest(t, req)
    \/ \E t \in Tasks : AnalyzeFetch(t)
    \/ \E t \in Tasks : AnalyzeConfigure(t)
    \/ \E t \in Tasks : RouteThroughApisix(t)
    \/ PoolStep
    \/ ShutdownAllStart
    \/ ShutdownAllStep

Spec == Init /\ [][Next]_vars

\* the state after initialize() ran sync_manifests over the registry
Synced(sizes) ==
    /\ module_pool_size \in sizes
    /\ apisix_client = TRUE
    /\ apisix_gateway_url = TRUE
    /\ redis_client = "none"
    /\ cache = {}
    /\ project_routing = [p \in Projects |-> RoutingModeOf(Registry[p], TRUE)]
    /\ configured_apisix_projects = { p \in Projects : has_apisix(Registry[p]) }
    /\ modules = [k \in Keys |-> 0]
    /\ order = <<>>
    /\ last_used = [k \in Keys |-> 0]
    /\ clock = 0
    /\ lock = 0
    /\ inst = [i \in Inst |-> NoInst]
    /\ task = [t \in Tasks |-> IdleTask]
    /\ sd = [pc |-> "idle", keys |-> <<>>]
    /\ request = NoRequest
    /\ extracted = "unset"
    /\ sync = NoSync
    /\ split = NoSplit
    /\ gateway = [NoGateway EXCEPT
                     !.admin = AdminAfterSync({ p \in Projects : has_apisix(Registry[p]) }),
                     !.names =
                         [k \in AdminKinds |->
                             UNION { { << AdminCalls(p)[i].id, AdminCalls(p)[i].name >> :
                                       i \in { j \in 1..Len(AdminCalls(p)) :
                                                 AdminCalls(p)[j].kind = k } } :
                                     p \in { q \in Projects : has_apisix(Registry[q]) } }]]

RequestsFor(ps) == { r \in Requests : extract_project_id(r) \in ps }

(* Concurrent direct-mode requests for the projects a and b racing with    *)
(* each other and with shutdown_all, the pool smaller than the key set.    *)
InitPool == Synced(0..(MaxPoolSize - 1))

NextPool ==
    \/ \E t \in Tasks, req \in RequestsFor({"a", "b"}) : HandleRequest(t, req)
    \/ PoolStep
    \/ ShutdownAllStart
    \/ ShutdownAllStep

SpecPool == InitPool /\ [][NextPool]_vars

(* Concurrent direct-mode requests for a and b alone, the pool holding at  *)
(* least one instance: every removal is an eviction or the replacement of  *)
(* an unhealthy instance.                                                  *)
InitEvict == Synced(1..MaxPoolSize)

NextEvict ==
    \/ \E t \in Tasks, req \in RequestsFor({"a", "b"}) : HandleRequest(t, req)
    \/ PoolStep

SpecEvict == InitEvict /\ [][NextEvict]_vars

(* One request at a time over the projects a, b and c: the order in which  *)
(* the pool evicts.                                                        *)
InitLru == Synced(PoolSizes)

NextLru ==
    \/ \E req \in RequestsFor({"a", "b", "c"}) : HandleRequest(1, req)
    \/ GetManifest(1)
    \/ AcquireLock(1)
    \/ HealthCheckDone(1)
    \/ RemoveShutdownDone(1)
    \/ InitializeDone(1)
    \/ EvictShutdownDone(1)
    \/ ReadBody(1)
    \/ ProcessRequestDone(1)

SpecLru == InitLru /\ [][NextLru]_vars

(* extract_project_id and the first step of handle_request applied to     *)
(* every request of RawRequests, before and after the startup sync.        *)
InitExtract ==
    /\ \/ Init /\ apisix_client /\ apisix_gateway_url
       \/ Synced({MaxPoolSize})
    /\ module_pool_size = MaxPoolSize

Arrive ==
    /\ request = NoRequest
    /\ request' \in RawRequests
    /\ UNCHANGED << config_vars, project_routing, configured_apisix_projects,
                    pool_vars, clock, lock, inst, task, sd,
                    extracted, gateway, cache, sync, split >>

Extract ==
    /\ request # NoRequest
    /\ extracted = "unset"
    /\ extracted' = extract_project_id(ParseRequest(request))
    /\ UNCHANGED << config_vars, project_routing, configured_apisix_projects,
                    pool_vars, clock, lock, inst, task, sd,
                    request, gateway, cache, sync, split >>

Receive ==
    /\ request # NoRequest
    /\ task[1].pc = "idle"
    /\ HandleRequest(1, ParseRequest(request))

NextExtract == Arrive \/ Extract \/ Receive

SpecExtract == InitExtract /\ [][NextExtract]_vars

(* The configurator applied, again and again, to manifests a caller holds: *)
(* LoadManifest parses a manifest anew, ConfigureFromManifest applies the  *)
(* configurator to the dict the caller holds, any admin calls failing.     *)
MaxApply == 2
MaxRefused == 1
MaxCleanup == 1

InitGateway == Synced({MaxPoolSize})

LoadManifest(m) ==
    /\ gateway.applied < MaxApply
    /\ gateway' = [gateway EXCEPT !.manifest = GatewayManifests[m], !.source = m]
    /\ UNCHANGED << config_vars, project_routing, configured_apisix_projects,
                    pool_vars, clock, lock, inst, task, sd,
                    request, extracted, sync, split, cache >>

ConfigureFromManifest(failing) ==
    /\ gateway.source # 0
    /\ gateway.applied < MaxApply
    /\ LET st == configure_from_manifest(gateway.manifest, gateway.admin, failing)
       IN gateway' = [manifest |-> st.manifest, source |-> gateway.source,
                      last |-> gateway.source, admin |-> st.admin,
                      names |-> NamesAfter(gateway.names, st.log),
                      results |-> st.results, log |-> st.log,
                      applied |-> gateway.applied + 1, cleanup |-> gateway.cleanup]
    /\ UNCHANGED << config_vars, project_routing, configured_apisix_projects,
                    pool_vars, clock, lock, inst, task, sd,
                    request, extracted, sync, split, cache >>

\* DELETE /admin/apisix/projects/{project_id}/resources
CleanupProjectResources(project_id, failing, refused) ==
    /\ gateway.applied > 0
    /\ gateway.cleanup.count < MaxCleanup
    /\ LET r == cleanup_project_resources(project_id, gateway.admin, gateway.names,
                                          failing, refused)
       IN gateway' = [gateway EXCEPT
                        !.admin = r.admin, !.names = r.names,
                        !.cleanup = [project_id |-> project_id,
                                     succeeded |-> (failing = {} /\ refused = {}),
                                     results |-> << r.results >>,
                                     count |-> gateway.cleanup.count + 1]]
    /\ UNCHANGED << config_vars, project_routing, configured_apisix_projects,
                    pool_vars, clock, lock, inst, task, sd,
                    request, extracted, sync, split, cache >>

NextGateway ==
    \/ \E m \in 1..Len(GatewayManifests) : LoadManifest(m)
    \/ \E failing \in
          SUBSET (1..Len(configure_from_manifest(gateway.manifest, NoAdmin, {}).log)) :
           ConfigureFromManifest(failing)

SpecGateway == InitGateway /\ [][NextGateway]_vars

(* Manifests applied with every admin call succeeding, and the resources   *)
(* of a project cleaned up, list calls failing and deletes being refused.  *)
NextCleanup ==
    \/ \E m \in 1..Len(GatewayManifests) : LoadManifest(m)
    \/ ConfigureFromManifest({})
    \* the project ids of the manifests, and t, which the id t-1 extends
    \/ \E project_id \in { GatewayManifests[m].project_id :
                             m \in 1..Len(GatewayManifests) } \cup { <<"t">> },
          failing \in SUBSET ResourceKinds :
           \E refused \in { r \in SUBSET UNION { { << k, x[1] >> : x \in gateway.names[k] } :
                                                 k \in ResourceKinds } :
                              Cardinality(r) <= MaxRefused } :
              CleanupProjectResources(project_id, failing, refused)

SpecCleanup == InitGateway /\ [][NextCleanup]_vars

(* Concurrent direct-mode requests for d and e, whose manifests differ in   *)
(* project_id alone; their instances share one key, so nothing is evicted. *)
InitKey == Synced(1..MaxPoolSize)

NextKey ==
    \/ \E t \in Tasks, req \in RequestsFor({"d", "e"}) : HandleRequest(t, req)
    \/ \E t \in Tasks : GetManifest(t)
    \/ \E t \in Tasks : AcquireLock(t)
    \/ \E t \in Tasks : HealthCheckDone(t)
    \/ \E t \in Tasks : RemoveShutdownDone(t)
    \/ \E t \in Tasks : InitializeDone(t)
    \/ \E t \in Tasks : ReadBody(t)
    \/ \E t \in Tasks : ProcessRequestDone(t)

SpecKey == InitKey /\ [][NextKey]_vars

(* Concurrent direct-mode requests for a and r in a pool that holds both.  *)
InitServe == Synced({MaxPoolSize})

NextServe ==
    \/ \E t \in Tasks, req \in RequestsFor({"a", "r"}) : HandleRequest(t, req)
    \/ \E t \in Tasks : GetManifest(t)
    \/ \E t \in Tasks : AcquireLock(t)
    \/ \E t \in Tasks : HealthCheckDone(t)
    \/ \E t \in Tasks : RemoveShutdownDone(t)
    \/ \E t \in Tasks : InitializeDone(t)
    \/ \E t \in Tasks : ReadBody(t)
    \/ \E t \in Tasks : ProcessRequestDone(t)

SpecServe == InitServe /\ [][NextServe]_vars

(* Routing decisions for every project under every gateway configuration,  *)
(* with one direct project (a) reaching the pool.                          *)
InitRoute ==
    /\ Init
    /\ module_pool_size = MaxPoolSize

GetRequestsFor(ps) == { r \in RequestsFor(ps) : r.method = "GET" }

NextRoute ==
    \/ \E t \in Tasks, req \in GetRequestsFor({None, "gw", "acme", "a"}) :
            HandleRequest(t, req)
    \/ \E t \in Tasks : AnalyzeFetch(t)
    \/ \E t \in Tasks : AnalyzeConfigure(t)
    \/ \E t \in Tasks : RouteThroughApisix(t)
    \/ \E t \in Tasks : GetManifest(t)
    \/ \E t \in Tasks : AcquireLock(t)
    \/ \E t \in Tasks : HealthCheckDone(t)
    \/ \E t \in Tasks : RemoveShutdownDone(t)
    \/ \E t \in Tasks : InitializeDone(t)
    \/ \E t \in Tasks : ProcessRequestDone(t)

SpecRoute == InitRoute /\ [][NextRoute]_vars

(* Concurrent first requests for the gateway project p, never seen before: *)
(* each runs its own sync, the admin calls of the syncs interleave.        *)
InitSync ==
    /\ Init
    /\ apisix_client /\ apisix_gateway_url
    /\ module_pool_size = MaxPoolSize

NextSync ==
    \/ \E t \in Tasks, req \in GetRequestsFor({"p"}) : HandleRequest(t, req)
    \/ \E t \in Tasks : AnalyzeFetch(t)
    \/ \E t \in Tasks : AnalyzeConfigure(t)

SpecSync == InitSync /\ [][NextSync]_vars

(* Requests for the direct project a under every state of the cache       *)
(* client; cached manifests expire.                                        *)
InitCache ==
    \* redis_client after initialize: None when no redis_url is configured or
    \* the ping raised; otherwise a client, whose later calls work or raise
    /\ Started({"none", "failing", "ok"})
    /\ module_pool_size = MaxPoolSize
    /\ ~apisix_client /\ ~apisix_gateway_url

NextCache ==
    \/ \E t \in Tasks, req \in GetRequestsFor({"a"}) : HandleRequest(t, req)
    \/ \E t \in Tasks : AnalyzeFetch(t)
    \/ \E t \in Tasks : GetManifest(t)
    \/ \E p \in Projects : CacheExpire(p)
    \/ \E t \in Tasks : AcquireLock(t)
    \/ \E t \in Tasks : HealthCheckDone(t)
    \/ \E t \in Tasks : RemoveShutdownDone(t)
    \/ \E t \in Tasks : InitializeDone(t)
    \/ \E t \in Tasks : ProcessRequestDone(t)

SpecCache == InitCache /\ [][NextCache]_vars

(* sync_manifests run once over the registry's list, with and without the  *)
(* gateway client, every fetch and admin call free to fail.                *)
InitBulk ==
    /\ Init
    /\ module_pool_size = MaxPoolSize
    /\ apisix_gateway_url

NextBulk ==
    \/ SyncManifestsStart
    \/ SyncManifestsList
    \/ SyncAnalyzeFetch
    \/ SyncAnalyzeConfigure

SpecBulk == InitBulk /\ [][NextBulk]_vars

(* _split_into_chunks called with every document up to MaxDoc characters,  *)
(* every chunk_size up to MaxChunkSize and every chunk_overlap up to        *)
(* MaxOverlap; the event loop keeps running the coroutine.                  *)
InitSplit ==
    /\ Service({"none"})
    /\ module_pool_size = MaxPoolSize
    /\ ~apisix_client
    /\ ~apisix_gateway_url
    \* the documents are the sequences of their character positions
    /\ \E document \in { [i \in 1..n |-> i] : n \in 0..MaxDoc },
          chunk_size \in 1..MaxChunkSize,
          chunk_overlap \in 0..MaxOverlap :
          split = [NoSplit EXCEPT !.pc = "loop", !.document = document,
                                  !.chunk_size = chunk_size,
                                  !.chunk_overlap = chunk_overlap]

NextSplit == SplitLoop \/ SplitReturn

SpecSplit == InitSplit /\ [][NextSplit]_vars /\ WF_vars(NextSplit)

(* ======================= properties of the pool ======================== *)
Pooled == { modules[k] : k \in { x \in Keys : modules[x] # 0 } }
Left(i) == inst[i].pooled /\ i \notin Pooled
Creating(t) == task[t].pc \in {"init", "evict_shutdown"}
Calling(t) == task[t].pc \in {"health", "remove_shutdown", "init", "evict_shutdown"}
InsertStep(t) == Creating(t) /\ task'[t].pc \in {"body", "process"}

C2_OnePerKey ==
    /\ \A k \in Keys :
          Cardinality({ t \in Tasks : Creating(t) /\ KeyOf(t) = k })
            + (IF modules[k] # 0 THEN 1 ELSE 0) <= 1
    /\ Cardinality({ t \in Tasks : Calling(t) }) <= 1
    /\ \A t \in Tasks : Calling(t) => lock = t

\* one call initializes an instance for a key while another call for the same
\* key waits for the lock
C2_Witness ==
    \E t, u \in Tasks :
        /\ task[t].pc = "init"
        /\ task[u].pc = "lock_wait"
        /\ task[u].project = task[t].project

\* C4: every instance that was in the pool and is no longer in it has had its
\* shutdown called exactly once.
C4_ShutdownExactlyOnce ==
    \A i \in Inst : Left(i) => inst[i].shutdown_calls = 1

EvictedOneLru(t) ==
    /\ task[t].pc = "evict_shutdown"
    /\ LET v == task[t].evicted
           vkey == inst[task[t].evicted].key
       IN  /\ modules[vkey] = v
           /\ inst[v].shutdown_calls >= 1
           /\ \A k \in Range(order) : last_used[vkey] <= last_used[k]
           /\ { k \in Keys : modules'[k] # 0 }
                 = ({ k \in Keys : modules[k] # 0 } \ {vkey}) \cup {KeyOf(t)}

HitStep(t) == task[t].pc = "health" /\ task'[t].pc \in {"body", "process"}

\* last_used is set to the current time by an insertion and by a healthy hit
LastUsedRefreshed(t) ==
    (InsertStep(t) \/ HitStep(t)) => last_used'[KeyOf(t)] = clock'

C9_InitFailureLeavesPool ==
    /\ [](\A i \in Inst :
            inst[i].status = "initializing" => (~inst[i].pooled /\ i \notin Pooled))
    /\ [][ \A t \in Tasks :
            (task[t].pc = "init" /\ task'[t].pc = "done")
                => /\ task'[t].status_code = 500
                   /\ task'[t].exc = "init_raised"
                   /\ task[t].evicted = 0
                   /\ UNCHANGED << pool_vars, inst >> ]_vars

\* initialize raised while the pool was full: nothing in the pool was shut down
C9_Witness ==
    \E t \in Tasks :
        /\ task[t].pc = "done" /\ task[t].exc = "init_raised"
        /\ task[t].status_code = 500
        /\ order # <<>> /\ Len(order) >= module_pool_size
        /\ \A i \in Pooled : inst[i].shutdown_calls = 0
        /\ \E i \in Inst : inst[i].status = "initializing"

\* C10: a probe that is not ready never ends the call but calls shutdown on
\* the instance found, before anything is created; a call that found an
\* unhealthy instance and returns, returns a fresh ready instance that the
\* pool holds under the key, the old one shut down and out of the pool; such
\* a call fails only when a shutdown or initialize raised; a healthy hit
\* returns the pooled instance and changes nothing but the key's last_used.
C10_UnhealthyIsMiss ==
    [][ \A t \in Tasks :
          /\ task[t].pc = "health" => task'[t].pc # "done"
          /\ (task[t].pc = "health" /\ task'[t] # task[t] /\ ~HitStep(t))
                => /\ task'[t].pc = "remove_shutdown"
                   /\ inst'[task[t].found].shutdown_calls
                        > inst[task[t].found].shutdown_calls
                      \/ inst[task[t].found].shutdown_calls = 2
                   /\ inst'[task[t].found].status = "shutting_down"
                   /\ \A i \in Inst \ {task[t].found} : inst'[i] = inst[i]
          /\ (InsertStep(t) /\ task[t].found # 0)
                => /\ task'[t].module # task[t].found
                   /\ modules'[KeyOf(t)] = task'[t].module
                   /\ inst'[task'[t].module].status = "ready"
                   /\ inst'[task'[t].module].shutdown_calls = 0
                   /\ inst'[task[t].found].shutdown_calls >= 1
                   /\ \A k \in Keys : modules'[k] # task[t].found
          /\ (task[t].found # 0 /\ task[t].pc # "done" /\ task'[t].pc = "done")
                => task'[t].exc \in {"shutdown_raised", "init_raised"}
          /\ HitStep(t)
                => /\ task'[t].module = task[t].found
                   /\ modules[KeyOf(t)] = task[t].found
                   /\ UNCHANGED << modules, order, inst >>
                   /\ \A k \in Keys \ {KeyOf(t)} : last_used'[k] = last_used[k] ]_vars

\* the unhealthy instance is shut down and out of the pool, its replacement
\* under the same key is being initialized
C10_Witness ==
    \E t \in Tasks :
        /\ task[t].pc = "init" /\ task[t].found # 0
        /\ task[t].module # task[t].found
        /\ inst[task[t].module].key = inst[task[t].found].key
        /\ inst[task[t].found].shutdown_calls = 1
        /\ task[t].found \notin Pooled

C7_SyncOncePerUnroutedRequest ==
    [][ \A t \in Tasks :
          /\ (task[t].pc # "analyze" /\ task'[t].pc = "analyze")
                => /\ task[t].pc \in {"idle", "done"}
                   /\ project_routing[task'[t].project] = "none"
          /\ (task[t].pc \in {"idle", "done"}
                /\ task'[t].pc \in {"gw_forward", "get_manifest"})
                => project_routing[task'[t].project] # "none"
          /\ (task[t].pc \in {"analyze", "configure"} /\ task'[t] # task[t])
                => task'[t].pc \in {"configure", "gw_forward", "get_manifest", "done"} ]_vars

\* one request syncs an unrouted project while another, for a routed
\* project, is already being forwarded
C7_Witness ==
    \E t, u \in Tasks :
        /\ task[t].pc = "analyze"
        /\ project_routing[task[t].project] = "none"
        /\ task[u].pc \in {"gw_forward", "get_manifest"}
        /\ project_routing[task[u].project] # "none"

GatewayTask(t) ==
    /\ task[t].pc \notin {"idle", "done"}
    /\ project_routing[task[t].project] = "apisix"

Identity(p) ==
    << Registry[p].project_id,
       [i \in 1..Len(Registry[p].modules) |-> Registry[p].modules[i].name],
       Registry[p].environment >>

\* C11: two manifests that differ in project_id, module name or environment
\* have different keys, so that the instance a request is handed to was
\* created from a manifest with the identity of the request's own.
C11_ServedByOwnManifest ==
    \A t \in Tasks :
        task[t].pc \in {"body", "process"}
            => Identity(inst[task[t].module].manifest) = Identity(task[t].project)

\* C12: every request dispatched to a module instance calls the instance's
\* handle_request exactly once, and initialize is never called on an
\* instance a second time.
C12_OneHandleRequestPerRequest ==
    [][ /\ \A t \in Tasks :
            (task[t].pc = "process" /\ task'[t].pc = "done")
                => task'[t].handled = 1
        /\ \A i \in Inst :
            (inst[i].status # "none" /\ inst'[i].status = "initializing")
                => inst[i].status = "initializing" ]_vars

(* =================== properties of error handling ===================== *)
\* C15: a request whose project has no routing mode when the sync attempt
\* ends is answered 404 in that step; the step adds no routing entry and
\* leaves the pool, the lock and every instance alone, and the request is
\* not forwarded to the gateway.
C15_UnroutedAfterSyncIs404 ==
    [][ \A t \in Tasks :
          (/\ task[t].pc \in {"analyze", "configure"}
           /\ task'[t] # task[t]
           /\ project_routing'[task[t].project] = "none")
              => /\ task'[t].pc = "done"
                 /\ task'[t].status_code = 404
                 /\ UNCHANGED << project_routing, configured_apisix_projects,
                                 pool_vars, inst, lock >> ]_vars

\* a request was answered 404 while no project has a routing entry
C15_Witness ==
    /\ \E t \in Tasks : task[t].pc = "done" /\ task[t].status_code = 404
    /\ \A p \in Projects : project_routing[p] = "none"
    /\ Pooled = {}

\* C16: a forwarded request that the gateway answers is answered with the
\* gateway's status code, one that times out with 504, one that fails in
\* transport otherwise with 502.
C16_GatewayOutcomeStatus ==
    [][ \A t \in Tasks :
          (task[t].pc = "gw_forward" /\ task'[t].pc = "done")
              => /\ task'[t].exc = "none"
                    => /\ task'[t].upstream \in GatewayStatuses
                       /\ task'[t].status_code = task'[t].upstream
                 /\ task'[t].exc = "gateway_timeout" => task'[t].status_code = 504
                 /\ task'[t].exc = "gateway_request_error"
                    => task'[t].status_code = 502 ]_vars

\* one forward timed out, another relayed the gateway's 404
C16_Witness ==
    \E t, u \in Tasks :
        /\ task[t].pc = "done" /\ task[t].exc = "gateway_timeout"
        /\ task[t].status_code = 504
        /\ task[u].pc = "done" /\ task[u].upstream = 404
        /\ task[u].status_code = 404

\* C17: a request during which the registry was unreachable or timed out, in
\* the sync or in the manifest fetch of route_to_module, is answered 502 or
\* 504.
C17_RegistryUnreachableIs50x ==
    \A t \in Tasks :
        (task[t].pc = "done" /\ task[t].exc = "registry_unreachable")
            => task[t].status_code \in {502, 504}

\* a required reference of the manifest that nothing resolves and that has
\* no default
UnresolvedRequired(manifest) ==
    \E i \in 1..Len(manifest.modules) :
        \E j \in 1..Len(manifest.modules[i].cross_references) :
            /\ manifest.modules[i].cross_references[j].required
            /\ manifest.modules[i].cross_references[j].default = None
            /\ manifest.modules[i].cross_references[j].source
                    = "secret-store://missing/path"

\* C18: a request whose manifest has an unresolved required reference never
\* enters get_or_create_module, and no instance is ever created from such a
\* manifest.
C18_MissingReferenceAborts ==
    /\ \A t \in Tasks :
          (task[t].project \in Projects /\ UnresolvedRequired(Registry[task[t].project]))
              => task[t].pc \in {"analyze", "configure", "get_manifest"}
    /\ \A i \in Inst :
          inst[i].status # "none" => ~UnresolvedRequired(Registry[inst[i].manifest])

(* =================== properties of the resolution ===================== *)
\* the text between the slash that starts a path and the next slash
RECURSIVE UpToSlash(_)
UpToSlash(s) ==
    IF s = <<>> \/ Head(s) = "/" THEN <<>> ELSE << Head(s) >> \o UpToSlash(Tail(s))

FirstSegment(url_path) ==
    IF url_path # <<>> /\ Head(url_path) = "/" THEN UpToSlash(Tail(url_path))
    ELSE UpToSlash(url_path)

\* C13: for a request whose path has a non-empty first segment,
\* extract_project_id returns that segment, whatever the X-Project-Id header
\* and the Host header hold.
C13_PathSegmentWins ==
    (extracted # "unset" /\ FirstSegment(request.url_path) # <<>>)
        => extracted = Str(FirstSegment(request.url_path))

\* path, header and subdomain name three different projects
C13_Witness ==
    /\ extracted = "a"
    /\ request.x_project_id = "b"
    /\ request.host = <<"c", ".", "x">>

\* no source yields a project id: the path holds nothing but slashes, the
\* header is empty, the host has no dot or starts with "." or "www."
NoSource(raw) ==
    /\ \A i \in 1..Len(raw.url_path) : raw.url_path[i] = "/"
    /\ raw.x_project_id = ""
    /\ \/ \A i \in 1..Len(raw.host) : raw.host[i] # "."
       \/ Head(raw.host) = "."
       \/ (Len(raw.host) >= 4 /\ SubSeq(raw.host, 1, 4) = <<"w", "w", "w", ".">>)

C19_ReapplyAddsNothing ==
    [][ ( /\ gateway.applied = 1
          /\ gateway'.applied = 2
          /\ gateway.last = gateway.source
          /\ gateway.results.errors = <<>> )
            => \A k \in ResourceKinds : gateway'.admin[k] = gateway.admin[k] ]_vars

\* the admin calls of a log that went to one kind of resource
CallsOf(log, kind) ==
    LET Test(c) == c.kind = kind IN SelectSeq(log, Test)

Succeeded(log) ==
    LET Test(c) == c.ok IN SelectSeq(log, Test)

Failed(log) ==
    LET Test(c) == ~c.ok IN SelectSeq(log, Test)

\* the resources of one kind that the gateway modules of a manifest list
RECURSIVE Listed(_, _, _)
Listed(manifest, mods, kind) ==
    IF mods = <<>> THEN 0
    ELSE LET config == manifest.modules[Head(mods)].config
             inline == { j \in 1..Len(config.routes) : config.routes[j].upstream }
         IN (CASE kind = "routes" -> Len(config.routes)
               [] kind = "upstreams" -> Len(config.upstreams) + Cardinality(inline)
               [] OTHER -> 0)
            + Listed(manifest, Tail(mods), kind)

Attempts(manifest, kind) ==
    LET mods == apisix_modules(manifest)
        configs == { manifest.modules[mods[i]].config : i \in 1..Len(mods) }
    IN CASE kind = "consumers" ->
              Cardinality({ c.consumer[1].username :
                            c \in { x \in configs : x.consumer # <<>> } })
         [] kind = "services" ->
              Cardinality({ c.service[1].id :
                            c \in { x \in configs : x.service # <<>> } })
         [] OTHER -> Listed(manifest, mods, kind)

\* C20: whichever admin calls fail while a manifest with a gateway module is
\* applied, every consumer, service, upstream and route the manifest lists
\* is attempted, errors gains exactly one entry per failed call, and the
\* ids of the calls that succeeded are listed under their kind.
C20_FailuresAreCollected ==
    [][ ( /\ gateway'.applied = gateway.applied + 1
          /\ apisix_modules(gateway.manifest) # <<>> )
            => /\ \A k \in ResourceKinds :
                      Len(CallsOf(gateway'.log, k)) = Attempts(gateway.manifest, k)
               /\ Len(gateway'.results.errors) = Len(Failed(gateway'.log))
               /\ \A k \in AdminKinds :
                      gateway'.results[k] =
                          [i \in 1..Len(CallsOf(Succeeded(gateway'.log), k)) |->
                              CallsOf(Succeeded(gateway'.log), k)[i].id] ]_vars

\* the upstream and the inline upstream of the second manifest failed, its
\* route and its global rule were still applied
C20_Witness ==
    /\ gateway.last = 2
    /\ Len(gateway.log) = 4
    /\ ~gateway.log[1].ok /\ ~gateway.log[2].ok
    /\ gateway.log[3].kind = "routes" /\ gateway.log[3].ok
    /\ Len(gateway.results.errors) = 2
    /\ gateway.results.routes # <<>>
    /\ gateway.results.global_rules # <<>>


\* C21: once the concurrent first requests for p have all left their sync
\* step, at least one sync having run to its end and no admin call having
\* failed, the routing mode of p and the gateway's routes, upstreams,
\* services and consumers are those one sync of p alone produces.
C21_ConcurrentSyncAsOne ==
    ( /\ \A t \in Tasks : task[t].pc \notin {"analyze", "configure"}
      /\ \A t \in Tasks : task[t].errors = 0
      /\ \E t \in Tasks : /\ task[t].project = "p"
                           /\ task[t].calls = Len(AdminCalls("p")) )
        => /\ project_routing["p"] = RoutingModeOf(Registry["p"], apisix_client)
           /\ \A k \in ResourceKinds : gateway.admin[k] = AdminAfterSync({"p"})[k]

\* two requests for p each ran a whole sync, and both are being forwarded
C21_Witness ==
    /\ \A t \in Tasks : /\ task[t].pc = "gw_forward"
                         /\ task[t].calls = Len(AdminCalls("p"))
                         /\ task[t].errors = 0
    /\ Len(AdminCalls("p")) > 0

\* C22: while there is no cache client, or one whose every call raises, the
\* cache stays empty, get_manifest gives the request a manifest exactly when
\* the registry answered with one, a sync whose fetch succeeded records the
\* routing mode, and no request ends in an error of the cache.
C22_CacheAbsentIsMiss ==
    [][ (redis_client \in {"none", "failing"})
          => ( /\ cache' = cache
               /\ \A t \in Tasks :
                    /\ task'[t].exc # "cache_error"
                    /\ (task[t].pc = "get_manifest" /\ task'[t] # task[t])
                          => ( /\ (task'[t].pc = "lock_wait") <=> (task'[t].registry = "ok")
                               /\ (task'[t].registry # "ok")
                                     => (task'[t].pc = "done" /\ task'[t].status_code = 404) )
                    /\ (task[t].pc = "analyze" /\ task'[t].registry = "ok")
                          => (project_routing'[task[t].project]
                                = RoutingModeOf(Registry[task[t].project], apisix_client)) )
      ]_vars

\* with a client whose calls raise, a sync recorded direct mode for a and a
\* request got the manifest from the registry
C22_Witness ==
    /\ redis_client = "failing"
    /\ project_routing["a"] = "direct"
    /\ cache = {}
    /\ \E t \in Tasks : task[t].pc = "lock_wait" /\ task[t].registry = "ok"

\* C23: configure_from_manifest leaves the manifest it is given, which is
\* the copy the sync records for the project, equal to what it was given.
C23_ManifestNotModified ==
    [][ (gateway'.applied = gateway.applied + 1)
          => (gateway'.manifest = gateway.manifest) ]_vars

\* the resources a fully successful configure_from_manifest creates for the
\* manifest of a project
CreatedFor(project_id, k) ==
    UNION { { c.id : c \in { d \in Range(configure_from_manifest(
                                              GatewayManifests[m], NoAdmin, {}).log) :
                                d.kind = k } } :
            m \in { i \in 1..Len(GatewayManifests) :
                      GatewayManifests[i].project_id = project_id } }

\* C24: after a cleanup of project P in which every admin call succeeded,
\* the gateway holds no route, upstream, service or consumer that
\* configure_from_manifest created for P.
C24_CleanupRemovesProject ==
    [][ ( /\ gateway'.cleanup # gateway.cleanup
          /\ gateway'.cleanup.succeeded )
            => \A k \in ResourceKinds :
                  gateway'.admin[k] \cap CreatedFor(gateway'.cleanup.project_id, k) = {}
      ]_vars

\* C28: a cleanup of project P leaves in place every route, upstream and
\* service that configure_from_manifest created for another project Q,
\* also when the id of Q is that of P followed by a hyphen and more.
C28_CleanupLeavesOthers ==
    [][ (gateway'.cleanup # gateway.cleanup)
          => \A m \in 1..Len(GatewayManifests) :
                (GatewayManifests[m].project_id # gateway'.cleanup.project_id)
                  => \A k \in {"routes", "upstreams", "services"} :
                        (gateway.admin[k] \cap CreatedFor(GatewayManifests[m].project_id, k))
                            \subseteq gateway'.admin[k]
      ]_vars

\* C26: a request for p that is being forwarded to the gateway finds p
\* recorded in the table of configured gateway projects.
C26_ForwardedAfterConfigured ==
    \A t \in Tasks :
        (task[t].pc = "gw_forward" /\ task[t].project = "p")
            => "p" \in configured_apisix_projects

\* C27: while no get_or_create_module and no shutdown_all is in progress,
\* every instance whose initialize was invoked is held in the pool or has
\* had its shutdown called.
C27_InitializedHeldOrShutDown ==
    ( /\ \A t \in Tasks : ~Calling(t) /\ task[t].pc # "lock_wait"
      /\ sd.pc # "wait" )
        => \A i \in Inst :
              (inst[i].status # "none")
                  => (i \in Pooled \/ inst[i].shutdown_calls > 0)

\* C25: when the analysis of a listed project ends with a failed fetch or a
\* failed configuration, the project's routing entry is what it was before
\* the analysis; a sync whose list fetch succeeded ends having analyzed
\* every listed project; a failed list fetch ends the sync with the routing
\* table unchanged.
C25_SyncSurvivesFailures ==
    [][ /\ \A p \in Projects :
              (p \in sync'.failed /\ p \notin sync.failed)
                => (project_routing'[p] = sync.before)
        /\ (sync.pc # "done" /\ sync'.pc = "done" /\ sync.pc # "list")
              => (sync'.analyzed =
                    { ManifestList[i] : i \in 1..Len(ManifestList) } \ {None})
        /\ (sync.pc = "list")
              => (project_routing' = project_routing) ]_vars

\* C29: every route one call of configure_from_manifest applied names, as
\* its service_id and as its upstream_id when they are set, a service and
\* an upstream the same call created.
C29_RoutesReferToApplied ==
    [][ (gateway'.applied = gateway.applied + 1)
          => \A r \in UNION { Range(gateway'.manifest.modules[m].config.routes) :
                               m \in Range(apisix_modules(gateway'.manifest)) } :
                (r.id \in Range(gateway'.results.routes))
                  => /\ (r.service_id # <<>>)
                          => (r.service_id \in Range(gateway'.results.services))
                     /\ (r.upstream_id # <<>>)
                          => (r.upstream_id \in Range(gateway'.results.upstreams)) ]_vars

\* C30: every call of _split_into_chunks returns.
C30_SplitTerminates == <>(split.pc = "done")

TypeOK ==
    /\ module_pool_size \in PoolSizes
    /\ lock \in Tasks \cup {0}
    /\ \A k \in Keys : modules[k] \in Inst \cup {0}
    /\ Range(order) = { k \in Keys : modules[k] # 0 }

====
